---------------------------- MODULE Spec2Model ----------------------------
(***************************************************************************)
(* Model of the judge service of rc-heimdall (JudgeService.create and      *)
(* JudgeService.handleCallback) and of its persistence: the submissions    *)
(* table (JudgeSubmissions), the team ledger and the Judge0 execution      *)
(* service.  Every await of the two handlers is a step of its own, so that *)
(* handlers of concurrent requests interleave at their persistence reads   *)
(* and writes.  QuestionRepository's storage of seeded questions is        *)
(* modelled beside it, with a specification of its own.                    *)
(***************************************************************************)
EXTENDS Integers, Sequences, FiniteSets

(***************************************************************************)
(* Bounds of the model.                                                    *)
(***************************************************************************)
\* number of create requests that reach Judge0 over a run
MaxCreates == 2
\* number of callbacks that are scored over a run
MaxCallbacks == 3
\* number of requests handled concurrently
MaxInFlight == 2
\* number of callbacks that are scored over a run of concurrent requests
MaxInterleaved == 2
\* length of a list of questions
MaxQuestions == 3

(***************************************************************************)
(* Texts are sequences of bytes; base64 texts are sequences of sextets,    *)
(* with Pad for the padding character '='.                                 *)
(***************************************************************************)
Pad == 64
NewLine == 10

RECURSIVE Base64Encode(_)
\* Buffer.from(text).toString('base64')
Base64Encode(b) ==
    IF Len(b) = 0 THEN << >>
    ELSE IF Len(b) = 1
         THEN << b[1] \div 4, (b[1] % 4) * 16, Pad, Pad >>
    ELSE IF Len(b) = 2
         THEN << b[1] \div 4, (b[1] % 4) * 16 + b[2] \div 16,
                 (b[2] % 16) * 4, Pad >>
    ELSE << b[1] \div 4, (b[1] % 4) * 16 + b[2] \div 16,
            (b[2] % 16) * 4 + b[3] \div 64, b[3] % 64 >>
         \o Base64Encode(SubSeq(b, 4, Len(b)))

RECURSIVE Base64Decode(_)
\* Buffer.from(stdout, 'base64').toString()
Base64Decode(s) ==
    IF Len(s) < 4 THEN << >>
    ELSE LET b1 == s[1] * 4 + s[2] \div 16
             b2 == (s[2] % 16) * 16 + s[3] \div 4
             b3 == (s[3] % 4) * 64 + s[4]
         IN  IF s[3] = Pad THEN << b1 >>
             ELSE IF s[4] = Pad THEN << b1, b2 >>
             ELSE << b1, b2, b3 >> \o Base64Decode(SubSeq(s, 5, Len(s)))

(***************************************************************************)
(* The problem catalog and the team ledger's keys.  Problems are immutable *)
(* for the judge; maxPoints is the column default.                         *)
(***************************************************************************)
DefaultMaxPoints == 100

\* "0\n1\n2\n3\n4\n5\n6\n7\n8\n9"
TenLines == << 48, 10, 49, 10, 50, 10, 51, 10, 52, 10,
               53, 10, 54, 10, 55, 10, 56, 10, 57 >>

Problems ==
    [ p1 |-> [id |-> "p1", maxPoints |-> DefaultMaxPoints,
              inputText |-> << 49 >>, outputText |-> TenLines],
      p2 |-> [id |-> "p2", maxPoints |-> DefaultMaxPoints \div 2,
              inputText |-> << 50 >>, outputText |-> TenLines] ]

ProblemIds == DOMAIN Problems
TeamIds == {1, 2}

Undefined == [undefined |-> TRUE]

\* ProblemsService.findOneForJudge
findOneForJudge(problemID) ==
    IF problemID \in ProblemIds THEN Problems[problemID] ELSE Undefined

(***************************************************************************)
(* Inputs of the requests.                                                 *)
(***************************************************************************)
\* language labels a client may send
Languages == {"cpp", "brainfuck-v2"}
\* problem and team ids a client may send ("px" and 9 are unknown)
RequestProblemIds == ProblemIds \cup {"px"}
RequestTeamIds == TeamIds \cup {9}
SourceCode == "code"

\* participant outputs: 4 lines, 7 lines and all lines of TenLines right
OutputTexts ==
    { << 48, 10, 49, 10, 50, 10, 51, 10, 120, 10,
         120, 10, 120, 10, 120, 10, 120, 10, 120 >>,
      << 48, 10, 49, 10, 50, 10, 51, 10, 52, 10,
         53, 10, 54, 10, 120, 10, 120, 10, 120 >>,
      TenLines }
Stdouts == { Base64Encode(t) : t \in OutputTexts }
\* the stdout of a run that printed nothing
NoStdout == << >>

(***************************************************************************)
(* mapLanguageStringToObject: the resolver table, -1 for other labels.     *)
(***************************************************************************)
LanguageTable == [ c |-> 50, cpp |-> 54, python |-> 71 ]

mapLanguageStringToObject(language) ==
    IF language \in DOMAIN LanguageTable
    THEN [id |-> LanguageTable[language], label |-> language]
    ELSE [id |-> -1, label |-> language]

(***************************************************************************)
(* CODE_STATES: Judge0 status ids to CodeStates; other ids are undefined.  *)
(***************************************************************************)
CODE_STATES ==
    [ i \in 1..14 |->
        CASE i = 1 -> "IN_QUEUE"
          [] i = 2 -> "PROCESSING"
          [] i = 3 -> "ACCEPTED"
          [] i = 4 -> "WRONG"
          [] i = 5 -> "TIME_LIMIT_EXCEEDED"
          [] i = 6 -> "COMPILE_ERROR"
          [] i \in 7..12 -> "RUNTIME_ERROR"
          [] i = 13 -> "INTERNAL_ERROR"
          [] OTHER -> "EXEC_FORMAT_ERROR" ]

CodeStateOf(statusId) ==
    IF statusId \in DOMAIN CODE_STATES THEN CODE_STATES[statusId]
    ELSE "undefined"

\* status ids a callback may carry (99 is not in the table)
StatusIds == {3, 4, 6, 99}

(***************************************************************************)
(* referee: the share of the expected lines the output has right.          *)
(***************************************************************************)
RECURSIVE SplitLines(_)
SplitLines(t) ==
    IF \A i \in 1..Len(t) : t[i] # NewLine THEN << t >>
    ELSE LET k == CHOOSE i \in 1..Len(t) :
                    t[i] = NewLine /\ \A j \in 1..(i - 1) : t[j] # NewLine
         IN  << SubSeq(t, 1, k - 1) >> \o SplitLines(SubSeq(t, k + 1, Len(t)))

referee(actual, expected, maxPoints) ==
    LET a == SplitLines(actual)
        e == SplitLines(expected)
        right == Cardinality({ i \in 1..Len(e) : i <= Len(a) /\ a[i] = e[i] })
    IN  [points |-> (right * maxPoints) \div Len(e)]

(***************************************************************************)
(* State.                                                                  *)
(***************************************************************************)
VARIABLES
    submissions,   \* the JudgeSubmissions table, a row per id
    teams,         \* the team ledger: points of each team
    judge0,        \* the submission requests Judge0 has received
    creates,       \* the create requests in flight
    callbacks,     \* the handleCallback requests in flight
    response,      \* the response the last step has sent, if it has sent one
    nScored,       \* callbacks scored so far
    maxProcessed,  \* per team and problem, the most points a processed
                   \* callback has scored
    questionStorage,   \* QuestionRepository: the list of stored questions
    questionReply      \* QuestionRepository: the value its last call returned

vars == << submissions, teams, judge0, creates, callbacks, response,
           nScored, maxProcessed, questionStorage, questionReply >>

judgeVars == << submissions, teams, judge0, creates, callbacks, response,
                nScored, maxProcessed >>
questionVars == << questionStorage, questionReply >>

Slots == 1..MaxInFlight
Tokens == 1..MaxCreates
Idle == [pc |-> "idle"]
None == [none |-> TRUE]

Init ==
    /\ submissions = << >>
    /\ teams = [t \in TeamIds |-> 0]
    /\ judge0 = << >>
    /\ creates = [s \in Slots |-> Idle]
    /\ callbacks = [s \in Slots |-> Idle]
    /\ response = None
    /\ nScored = 0
    /\ maxProcessed = [t \in TeamIds |-> [p \in ProblemIds |-> 0]]
    /\ questionStorage = << >>
    /\ questionReply = None

InFlight ==
    Cardinality({s \in Slots : creates[s].pc # "idle"})
  + Cardinality({s \in Slots : callbacks[s].pc # "idle"})

\* a request takes the lowest free slot
FreeSlot(table, s) ==
    /\ table[s].pc = "idle"
    /\ \A r \in Slots : r < s => table[r].pc # "idle"

(***************************************************************************)
(* Persistence queries.                                                    *)
(***************************************************************************)
Rows == 1..Len(submissions)

\* JudgeRepository.fetchDetailsByJudge0Token: the row of the token, with its
\* problem and team, or undefined
fetchDetailsByJudge0Token(token) ==
    IF \E i \in Rows : submissions[i].judge0ID = token
    THEN submissions[CHOOSE i \in Rows : submissions[i].judge0ID = token]
    ELSE Undefined

Max(S) == CHOOSE x \in S : \A y \in S : y <= x

\* JudgeRepository.getHighestPointsFor: the most points among the rows of
\* the problem and the team, or undefined when there is no such row
getHighestPointsFor(problemID, teamID) ==
    LET rows == { i \in Rows : /\ submissions[i].problem = problemID
                               /\ submissions[i].team = teamID }
    IN  IF rows = {} THEN Undefined
        ELSE [points |-> Max({ submissions[i].points : i \in rows })]

\* TeamsService.findOneById
findOneById(teamID) ==
    IF teamID \in TeamIds THEN [id |-> teamID, points |-> teams[teamID]]
    ELSE Undefined

(***************************************************************************)
(* JudgeService.create                                                     *)
(***************************************************************************)
\* a slip in the sentinel: the check compares with 1
LanguageRejectedSlip(codeLanguage) == codeLanguage.id = 1

\* if (codeLanguage.id === -1)
LanguageRejected(codeLanguage) == codeLanguage.id = -1

PostBody(code, codeLanguage, problem) ==
    [ source_code |-> code,
      language_id |-> codeLanguage.id,
      callback_url |-> "callback",
      expected_output |-> Base64Encode(problem.outputText),
      stdin |-> Base64Encode(problem.inputText) ]

\* a slip: the submission is saved as being processed
NewSubmissionSlip(c) ==
    [ id |-> Len(submissions) + 1,
      problem |-> c.problem.id,
      team |-> c.team.id,
      language |-> c.codeLanguage.id,
      state |-> "PROCESSING",
      points |-> 0,
      judge0ID |-> c.judge0ID,
      code |-> c.dto.code,
      best |-> FALSE ]

NewSubmission(c) ==
    [ id |-> Len(submissions) + 1,
      problem |-> c.problem.id,
      team |-> c.team.id,
      language |-> c.codeLanguage.id,
      state |-> "IN_QUEUE",
      points |-> 0,
      judge0ID |-> c.judge0ID,
      code |-> c.dto.code,
      best |-> FALSE ]

CreateReply(result, dto) == [op |-> "create", result |-> result, dto |-> dto]

\* create requests that have not reached Judge0 yet
Undispatched == { s \in Slots : creates[s].pc \in {"fetchTeam", "dispatch"} }

\* the requests a client may send
CreateDtos ==
    [code : {SourceCode}, language : Languages, problemID : RequestProblemIds,
     teamID : RequestTeamIds]

\* the request arrives: the language is resolved and the problem fetched
CreateFetchProblem(s, dto) ==
    /\ Len(judge0) + Cardinality(Undispatched) < MaxCreates
    /\ InFlight < MaxInFlight
    /\ FreeSlot(creates, s)
    /\ LET codeLanguage == mapLanguageStringToObject(dto.language)
           problem == findOneForJudge(dto.problemID)
       IN  IF LanguageRejected(codeLanguage)
           THEN /\ response' = CreateReply("BadRequest: Code language not accepted", dto)
                /\ UNCHANGED creates
           ELSE IF problem = Undefined
           THEN /\ response' = CreateReply("BadRequest: No problem with id", dto)
                /\ UNCHANGED creates
           ELSE /\ creates' = [creates EXCEPT ![s] =
                       [ pc |-> "fetchTeam", dto |-> dto,
                         codeLanguage |-> codeLanguage, problem |-> problem ]]
                /\ response' = None
    /\ UNCHANGED << submissions, teams, judge0, callbacks, nScored,
                    maxProcessed >>
    /\ UNCHANGED questionVars

\* a slip: the request goes on to Judge0 without the team having been found
CreateFetchTeamSlip(s) ==
    /\ creates[s].pc = "fetchTeam"
    /\ LET c == creates[s]
       IN  creates' = [creates EXCEPT ![s] =
               [ pc |-> "dispatch", dto |-> c.dto,
                 codeLanguage |-> c.codeLanguage, problem |-> c.problem,
                 team |-> [id |-> c.dto.teamID, points |-> 0],
                 postBody |-> PostBody(c.dto.code, c.codeLanguage, c.problem) ]]
    /\ response' = None
    /\ UNCHANGED << submissions, teams, judge0, callbacks, nScored,
                    maxProcessed >>
    /\ UNCHANGED questionVars

\* the team is fetched and the request to Judge0 prepared
CreateFetchTeam(s) ==
    /\ creates[s].pc = "fetchTeam"
    /\ LET c == creates[s]
           team == findOneById(c.dto.teamID)
       IN  IF team = Undefined
           THEN /\ response' = CreateReply("BadRequest: No team with id", c.dto)
                /\ creates' = [creates EXCEPT ![s] = Idle]
           ELSE /\ creates' = [creates EXCEPT ![s] =
                       [ pc |-> "dispatch", dto |-> c.dto,
                         codeLanguage |-> c.codeLanguage, problem |-> c.problem,
                         team |-> team,
                         postBody |-> PostBody(c.dto.code, c.codeLanguage, c.problem) ]]
                /\ response' = None
    /\ UNCHANGED << submissions, teams, judge0, callbacks, nScored,
                    maxProcessed >>
    /\ UNCHANGED questionVars

\* a slip: the failure of the POST is caught and the submission saved anyway
CreateDispatchOrphan(s, accepted) ==
    /\ creates[s].pc = "dispatch"
    /\ LET c == creates[s]
           token == IF accepted THEN Len(judge0) + 1 ELSE 0
       IN  /\ judge0' = Append(judge0, [request |-> c.postBody, token |-> token])
           /\ creates' = [creates EXCEPT ![s] =
                  [ pc |-> "persist", dto |-> c.dto,
                    codeLanguage |-> c.codeLanguage,
                    problem |-> c.problem, team |-> c.team,
                    judge0ID |-> token ]]
           /\ response' = None
    /\ UNCHANGED << submissions, teams, callbacks, nScored, maxProcessed >>
    /\ UNCHANGED questionVars

\* the POST to Judge0: it answers with a fresh token, or the call fails
CreateDispatch(s, accepted) ==
    /\ creates[s].pc = "dispatch"
    /\ LET c == creates[s]
           token == IF accepted THEN Len(judge0) + 1 ELSE 0
       IN  /\ judge0' = Append(judge0, [request |-> c.postBody, token |-> token])
           /\ IF accepted
              THEN /\ creates' = [creates EXCEPT ![s] =
                          [ pc |-> "persist", dto |-> c.dto,
                            codeLanguage |-> c.codeLanguage,
                            problem |-> c.problem, team |-> c.team,
                            judge0ID |-> token ]]
                   /\ response' = None
              ELSE /\ creates' = [creates EXCEPT ![s] = Idle]
                   /\ response' = CreateReply("HttpError", c.dto)
    /\ UNCHANGED << submissions, teams, callbacks, nScored, maxProcessed >>
    /\ UNCHANGED questionVars

\* judgeRepository.save: the submission is inserted and returned
CreatePersist(s) ==
    /\ creates[s].pc = "persist"
    /\ submissions' = Append(submissions, NewSubmission(creates[s]))
    /\ creates' = [creates EXCEPT ![s] = Idle]
    /\ response' = CreateReply("created", creates[s].dto)
    /\ UNCHANGED << teams, judge0, callbacks, nScored, maxProcessed >>
    /\ UNCHANGED questionVars

(***************************************************************************)
(* JudgeService.handleCallback                                             *)
(***************************************************************************)
\* callbacks Judge0 may deliver: ACCEPTED with the expected output, WRONG
\* with another output, and no output with a status that is not scored
CallbackDtos ==
    { d \in [token : Tokens, statusId : StatusIds, stdout : Stdouts \cup {NoStdout}] :
        CASE CodeStateOf(d.statusId) = "ACCEPTED" ->
                 d.stdout = Base64Encode(TenLines)
          [] CodeStateOf(d.statusId) = "WRONG" ->
                 d.stdout \in Stdouts \ {Base64Encode(TenLines)}
          [] OTHER -> d.stdout = NoStdout }

CallbackReply(result, dto) ==
    [op |-> "handleCallback", result |-> result, dto |-> dto]

\* the callback handled to its end right before dto arrives, when it was for
\* the same token
Previous(dto) ==
    IF /\ response # None
       /\ response.op = "handleCallback"
       /\ response.result \in {"error: false", "done"}
       /\ response.dto.token = dto.token
    THEN response.dto
    ELSE None

\* a slip in the check: only a compile error is left unscored
NotScoredSlip(codeStatus) == codeStatus = "COMPILE_ERROR"

\* if (codeStatus !== CodeStates.WRONG && codeStatus !== CodeStates.ACCEPTED)
NotScored(codeStatus) == codeStatus # "WRONG" /\ codeStatus # "ACCEPTED"

\* referee(Buffer.from(stdout, 'base64').toString(), outputText, maxPoints)
\* for the outputs and the problems of the model
Evaluations ==
    [ o \in Stdouts \cup {NoStdout} |-> [ p \in ProblemIds |->
        referee(Base64Decode(o), Problems[p].outputText, Problems[p].maxPoints) ] ]

Abs(x) == IF x < 0 THEN -x ELSE x

\* a slip in the aggregation: the points are added whatever the best is
TeamPointsAfterAdds(teamPoints, bestSubmissionTillNow, points) ==
    teamPoints + points

\* a slip in the aggregation: an improvement adds the full points
TeamPointsAfterFull(teamPoints, bestSubmissionTillNow, points) ==
    IF bestSubmissionTillNow = Undefined
    THEN teamPoints + points
    ELSE IF bestSubmissionTillNow.points < points
    THEN teamPoints + points
    ELSE teamPoints

\* the points of the team after the submission is compared with the best
\* one till now
TeamPointsAfter(teamPoints, bestSubmissionTillNow, points) ==
    IF bestSubmissionTillNow = Undefined
    THEN teamPoints + points
    ELSE IF bestSubmissionTillNow.points < points
    THEN teamPoints + Abs(points - bestSubmissionTillNow.points)
    ELSE teamPoints

\* a slip: a callback for an unknown token is dropped without an error
CbUnknownTokenDropped(dto) ==
    /\ response' = CallbackReply("done", dto)
    /\ UNCHANGED << callbacks, nScored >>

\* a slip: a callback for an unknown token is acknowledged
CbUnknownTokenAcked(dto) ==
    /\ response' = CallbackReply("error: false", dto)
    /\ UNCHANGED << callbacks, nScored >>

\* throw new BadRequestException(`submission with token ${token} not found`)
CbUnknownToken(dto) ==
    /\ response' = CallbackReply("BadRequest: submission not found", dto)
    /\ UNCHANGED << callbacks, nScored >>

\* return { error: false }
CbNotScored(dto) ==
    /\ response' = CallbackReply("error: false", dto)
    /\ UNCHANGED << callbacks, nScored >>

\* a slip: the output is evaluated for the log and again for the points
CbEvaluateTwice(s, dto, submission) ==
    LET logged == Evaluations[dto.stdout][submission.problem]
        refereeEvaluation == Evaluations[dto.stdout][submission.problem]
    IN  /\ nScored' = nScored + 2
        /\ callbacks' = [callbacks EXCEPT ![s] =
                [ pc |-> "readBest", dto |-> dto, previous |-> Previous(dto),
                  submission |-> [submission EXCEPT
                      !.points = refereeEvaluation.points] ]]
        /\ response' = None

\* the output is evaluated and the points assigned to the fetched submission
CbEvaluate(s, dto, submission) ==
    LET refereeEvaluation == Evaluations[dto.stdout][submission.problem]
    IN  /\ nScored' = nScored + 1
        /\ callbacks' = [callbacks EXCEPT ![s] =
                [ pc |-> "readBest", dto |-> dto, previous |-> Previous(dto),
                  submission |-> [submission EXCEPT
                      !.points = refereeEvaluation.points] ]]
        /\ response' = None

\* the callback arrives: the submission is fetched by its token, the status
\* mapped and the output evaluated
CbFetch(s, dto) ==
    /\ InFlight < MaxInFlight
    /\ FreeSlot(callbacks, s)
    /\ LET submission == fetchDetailsByJudge0Token(dto.token)
           codeStatus == CodeStateOf(dto.statusId)
       IN  IF submission = Undefined THEN CbUnknownToken(dto)
           ELSE IF NotScored(codeStatus) THEN CbNotScored(dto)
           ELSE CbEvaluate(s, dto, submission)
    /\ UNCHANGED << submissions, teams, judge0, creates, maxProcessed >>
    /\ UNCHANGED questionVars

\* judgeRepository.getHighestPointsFor
CbReadBest(s) ==
    /\ callbacks[s].pc = "readBest"
    /\ LET h == callbacks[s]
       IN  callbacks' = [callbacks EXCEPT ![s] =
               [ pc |-> "saveSubmission", dto |-> h.dto, previous |-> h.previous,
                 submission |-> h.submission,
                 bestSubmissionTillNow |->
                     getHighestPointsFor(h.submission.problem, h.submission.team) ]]
    /\ response' = None
    /\ UNCHANGED << submissions, teams, judge0, creates, nScored,
                    maxProcessed >>
    /\ UNCHANGED questionVars

\* submission.save()
CbSaveSubmission(s) ==
    /\ callbacks[s].pc = "saveSubmission"
    /\ LET h == callbacks[s]
       IN  /\ submissions' = [submissions EXCEPT ![h.submission.id] = h.submission]
           /\ callbacks' = [callbacks EXCEPT ![s] =
                  [ pc |-> "readTeam", dto |-> h.dto, previous |-> h.previous,
                    submission |-> h.submission,
                    bestSubmissionTillNow |-> h.bestSubmissionTillNow ]]
    /\ response' = None
    /\ UNCHANGED << teams, judge0, creates, nScored, maxProcessed >>
    /\ UNCHANGED questionVars

\* teamService.findOneById
CbReadTeam(s) ==
    /\ callbacks[s].pc = "readTeam"
    /\ LET h == callbacks[s]
       IN  callbacks' = [callbacks EXCEPT ![s] =
               [ pc |-> "saveTeam", dto |-> h.dto, previous |-> h.previous,
                 submission |-> h.submission,
                 bestSubmissionTillNow |-> h.bestSubmissionTillNow,
                 team |-> findOneById(h.submission.team) ]]
    /\ response' = None
    /\ UNCHANGED << submissions, teams, judge0, creates, nScored,
                    maxProcessed >>
    /\ UNCHANGED questionVars

\* a slip: the points are written to the team that has the submission's id
CbSaveTeamSlip(s) ==
    /\ callbacks[s].pc = "saveTeam"
    /\ LET h == callbacks[s]
           sub == h.submission
       IN  /\ teams' = [teams EXCEPT ![sub.id] =
                  TeamPointsAfter(h.team.points, h.bestSubmissionTillNow, sub.points)]
           /\ maxProcessed' = [maxProcessed EXCEPT ![sub.team][sub.problem] =
                  IF sub.points > @ THEN sub.points ELSE @]
           /\ response' = CallbackReply("done", h.dto)
    /\ callbacks' = [callbacks EXCEPT ![s] = Idle]
    /\ UNCHANGED << submissions, judge0, creates, nScored >>
    /\ UNCHANGED questionVars

\* the points of the team are updated and team.save() writes them
CbSaveTeam(s) ==
    /\ callbacks[s].pc = "saveTeam"
    /\ LET h == callbacks[s]
           sub == h.submission
       IN  /\ teams' = [teams EXCEPT ![h.team.id] =
                  TeamPointsAfter(h.team.points, h.bestSubmissionTillNow, sub.points)]
           /\ maxProcessed' = [maxProcessed EXCEPT ![sub.team][sub.problem] =
                  IF sub.points > @ THEN sub.points ELSE @]
           /\ response' = CallbackReply("done", h.dto)
    /\ callbacks' = [callbacks EXCEPT ![s] = Idle]
    /\ UNCHANGED << submissions, judge0, creates, nScored >>
    /\ UNCHANGED questionVars

(***************************************************************************)
(* Specifications: requests handled concurrently, and one at a time.       *)
(***************************************************************************)
Next ==
    \/ \E s \in Slots, dto \in CreateDtos : CreateFetchProblem(s, dto)
    \/ \E s \in Slots : CreateFetchTeam(s)
    \/ \E s \in Slots, accepted \in BOOLEAN : CreateDispatch(s, accepted)
    \/ \E s \in Slots : CreatePersist(s)
    \/ \E s \in Slots, dto \in CallbackDtos :
           nScored < MaxInterleaved /\ CbFetch(s, dto)
    \/ \E s \in Slots : CbReadBest(s)
    \/ \E s \in Slots : CbSaveSubmission(s)
    \/ \E s \in Slots : CbReadTeam(s)
    \/ \E s \in Slots : CbSaveTeam(s)

Spec == Init /\ [][Next]_vars

\* every request is handled to its end before the next one arrives
NextSeq ==
    \/ \E s \in Slots, dto \in CreateDtos :
           InFlight = 0 /\ CreateFetchProblem(s, dto)
    \/ \E s \in Slots : CreateFetchTeam(s)
    \/ \E s \in Slots, accepted \in BOOLEAN : CreateDispatch(s, accepted)
    \/ \E s \in Slots : CreatePersist(s)
    \/ \E s \in Slots, dto \in CallbackDtos :
           InFlight = 0 /\ nScored < MaxCallbacks /\ CbFetch(s, dto)
    \/ \E s \in Slots : CbReadBest(s)
    \/ \E s \in Slots : CbSaveSubmission(s)
    \/ \E s \in Slots : CbReadTeam(s)
    \/ \E s \in Slots : CbSaveTeam(s)

SeqSpec == Init /\ [][NextSeq]_vars

(***************************************************************************)
(* QuestionRepository: the storage of seeded questions.                    *)
(***************************************************************************)
QuestionIds == {"q1", "q2", "q3"}

\* the lists a controller may seed
QuestionLists ==
    UNION { [1..n -> [id : QuestionIds]] : n \in 0..MaxQuestions }

\* the arrow function handed to forEach
QuestionCallback(question, filterDto) ==
    IF question.id = filterDto.id THEN question ELSE Undefined

\* questionStorage.forEach(...) calls the function on every question and
\* drops what it returns; the method then returns undefined
CheckIfQuestionExistResult(storage, filterDto) ==
    LET dropped == [ i \in 1..Len(storage) |->
                       QuestionCallback(storage[i], filterDto) ]
    IN  IF dropped = << >> THEN Undefined ELSE Undefined

clearStorage ==
    /\ questionStorage' = << >>
    /\ questionReply' = [op |-> "clearStorage", result |-> TRUE]
    /\ UNCHANGED judgeVars

seedQuestionList(questionList) ==
    /\ questionStorage' = questionList
    /\ questionReply' = [op |-> "seedQuestionList", result |-> TRUE]
    /\ UNCHANGED judgeVars

checkIfQuestionExist(filterDto) ==
    /\ questionReply' =
          [ op |-> "checkIfQuestionExist", filterDto |-> filterDto,
            result |-> CheckIfQuestionExistResult(questionStorage, filterDto) ]
    /\ UNCHANGED questionStorage
    /\ UNCHANGED judgeVars

QuestionNext ==
    \/ clearStorage
    \/ \E questionList \in QuestionLists : seedQuestionList(questionList)
    \/ \E filterDto \in [id : QuestionIds] : checkIfQuestionExist(filterDto)

QuestionSpec == Init /\ [][QuestionNext]_vars

(***************************************************************************)
(* Properties.                                                             *)
(***************************************************************************)
RECURSIVE SumOver(_, _)
SumOver(f, S) ==
    IF S = {} THEN 0
    ELSE LET x == CHOOSE y \in S : TRUE
         IN  f[x] + SumOver(f, S \ {x})

\* the rows of a team for a problem
RowsOf(teamID, problemID) ==
    { i \in Rows : submissions[i].team = teamID /\ submissions[i].problem = problemID }

KnownToken(token) == \E i \in Rows : submissions[i].judge0ID = token

ScoredStatus(statusId) == CodeStateOf(statusId) \in {"ACCEPTED", "WRONG"}

\* C1: with callbacks handled one at a time, the points of every team are
\* the sum, over the problems, of the most points a processed callback has
\* scored for the team and the problem.
C1_PointsAreSumOfBest ==
    \A t \in TeamIds : teams[t] = SumOver(maxProcessed[t], ProblemIds)

\* C2: the points of a team never decrease from a state to the next, however
\* the handlers of the callbacks interleave.
C2_PointsNeverDecrease ==
    [][\A t \in TeamIds : teams'[t] >= teams[t]]_vars

\* C3: when two submissions of a team for one problem have each been scored
\* by one callback, concurrently or not, the points of the team are those a
\* serial order of the two callbacks gives: the larger of the two scores.
C3_SerialOutcome ==
    \A t \in TeamIds, p \in ProblemIds :
        ( /\ InFlight = 0
          /\ nScored = 2
          /\ Cardinality(RowsOf(t, p)) = 2
          /\ \A i \in RowsOf(t, p) : submissions[i].points > 0 )
        => teams[t] = Max({ submissions[i].points : i \in RowsOf(t, p) })

\* the callback handler in flight in slot s has made its step
Handled(s) == callbacks[s].pc # "idle" /\ callbacks'[s] # callbacks[s]

\* the response is to a callback that was handled for a known token
CallbackHandled ==
    /\ response # None
    /\ response.op = "handleCallback"
    /\ response.result \in {"error: false", "done"}

\* C4: a callback delivered again, with the token, the status id and the
\* output of the callback handled right before it, changes no submission and
\* no team's points, at any step of its handling.
C4_RedeliveryChangesNothing ==
    [][ /\ \A s \in Slots :
              (Handled(s) /\ callbacks[s].previous = callbacks[s].dto)
              => UNCHANGED << submissions, teams >>
        /\ (CallbackHandled /\ CallbackHandled' /\ response'.dto = response.dto)
              => UNCHANGED << submissions, teams >> ]_vars

\* a callback delivered a second time is about to write the team's points
C4_Witness ==
    \E s \in Slots :
        /\ callbacks[s].pc = "saveTeam"
        /\ callbacks[s].previous = callbacks[s].dto
        /\ teams[callbacks[s].team.id] > 0

\* C5: once a callback has been handled for a token, the next callback for
\* that token, whatever its status id and output, changes no submission and
\* no team's points.
C5_OneCallbackPerToken ==
    [][ \A s \in Slots :
           (Handled(s) /\ callbacks[s].previous # None)
           => UNCHANGED << submissions, teams >> ]_vars

\* the increase the aggregator's rule gives for new points over a prior best
Delta(old, new) ==
    IF old = Undefined THEN new
    ELSE IF new > old.points THEN new - old.points
    ELSE 0

\* C6: with callbacks handled one at a time, the handler of a scored callback
\* reads as prior best the most points of the rows of the team and the
\* problem, and raises the points of the team by the new points when there is
\* no prior best, by the difference when the new points exceed it and by 0
\* otherwise; no other team's points change.
C6_DeltaRule ==
    [][ \A s \in Slots :
           /\ (callbacks[s].pc = "readBest" /\ Handled(s))
              => LET sub == callbacks[s].submission
                     old == callbacks'[s].bestSubmissionTillNow
                 IN  /\ RowsOf(sub.team, sub.problem) # {}
                     /\ old.points =
                          Max({ submissions[i].points :
                                  i \in RowsOf(sub.team, sub.problem) })
           /\ (callbacks[s].pc = "saveTeam" /\ Handled(s))
              => LET h == callbacks[s]
                     t == h.submission.team
                 IN  /\ teams'[t] = teams[t]
                           + Delta(h.bestSubmissionTillNow, h.submission.points)
                     /\ \A u \in TeamIds \ {t} : teams'[u] = teams[u] ]_vars

\* two submissions of team 1 for p1 scored 40 and 70: the team has 70 points
C6_Witness ==
    /\ InFlight = 0
    /\ nScored = 2
    /\ { submissions[i].points : i \in RowsOf(1, "p1") } = {40, 70}
    /\ teams[1] = 70

\* C7: after a callback for a known token has returned, the submission of
\* the token is no longer in the queue.
C7_CallbackLeavesQueue ==
    CallbackHandled
    => fetchDetailsByJudge0Token(response.dto.token).state # "IN_QUEUE"

\* C8: a callback whose status id maps to no scored state is answered at its
\* arrival: it changes no submission (points, best marker) and no team's
\* points, and no handler ever aggregates for such a callback.
C8_UnscoredCallbackChangesNothing ==
    /\ [][ ( /\ response' # None
             /\ response'.op = "handleCallback"
             /\ ~ScoredStatus(response'.dto.statusId)
             /\ KnownToken(response'.dto.token) )
           => /\ response'.result = "error: false"
              /\ UNCHANGED << submissions, teams, callbacks, nScored >> ]_vars
    /\ [](\A s \in Slots :
             callbacks[s].pc # "idle" => ScoredStatus(callbacks[s].dto.statusId))

\* a callback with a status id that is not in the table has been answered
\* for a submission that has points
C8_Witness ==
    /\ CallbackHandled
    /\ response.result = "error: false"
    /\ response.dto.statusId \notin DOMAIN CODE_STATES
    /\ fetchDetailsByJudge0Token(response.dto.token).points > 0
    /\ teams[fetchDetailsByJudge0Token(response.dto.token).team] > 0

\* C9: a callback whose token matches no submission fails with the bad
\* request "submission not found", starts no handler and changes no
\* submission and no team's points.
C9_UnknownTokenRejected ==
    /\ [][ ( /\ response' # None
             /\ response'.op = "handleCallback"
             /\ ~KnownToken(response'.dto.token) )
           => /\ response'.result = "BadRequest: submission not found"
              /\ UNCHANGED << submissions, teams, callbacks, nScored,
                              maxProcessed, judge0 >> ]_vars
    /\ [](\A s \in Slots :
             callbacks[s].pc # "idle" => KnownToken(callbacks[s].dto.token))

\* a callback has been rejected for its token while a submission with points
\* was persisted
C9_Witness ==
    /\ response # None
    /\ response.op = "handleCallback"
    /\ response.result = "BadRequest: submission not found"
    /\ ~KnownToken(response.dto.token)
    /\ \E i \in Rows : submissions[i].points > 0

\* C10: create with a language label that is not in the resolver table fails
\* with the bad request "Code language not accepted" at its arrival, without
\* a request to Judge0 and without a write; no request Judge0 has received
\* and no submission carries the language id -1.
C10_UnknownLanguageRejected ==
    /\ [][ ( /\ response' # None
             /\ response'.op = "create"
             /\ response'.dto.language \notin DOMAIN LanguageTable )
           => /\ response'.result = "BadRequest: Code language not accepted"
              /\ UNCHANGED << judge0, submissions, teams, creates >> ]_vars
    /\ [](/\ \A i \in 1..Len(judge0) : judge0[i].request.language_id # -1
          /\ \A i \in Rows : submissions[i].language # -1
          /\ \A s \in Slots :
                creates[s].pc # "idle"
                => creates[s].dto.language \in DOMAIN LanguageTable)

\* a create has been rejected for its language after another create went
\* through
C10_Witness ==
    /\ response # None
    /\ response.op = "create"
    /\ response.result = "BadRequest: Code language not accepted"
    /\ Len(judge0) > 0
    /\ Len(submissions) > 0

\* the tokens Judge0 has answered a POST with
IssuedTokens == { judge0[i].token : i \in 1..Len(judge0) } \ {0}

\* the response is to a create request
CreateAnswered == response # None /\ response.op = "create"

\* C11: when the POST to Judge0 fails, create fails with the error of the
\* call at that step and writes nothing; every submission carries a token
\* Judge0 has answered a POST with, and no two submissions carry the same.
C11_FailedDispatchLeavesNoSubmission ==
    /\ [][ ( /\ Len(judge0') > Len(judge0)
             /\ judge0'[Len(judge0')].token = 0 )
           => /\ CreateAnswered'
              /\ response'.result = "HttpError"
              /\ \A s \in Slots : creates'[s].pc # "persist"
                                     \/ creates'[s] = creates[s]
              /\ UNCHANGED << submissions, teams >> ]_vars
    /\ [](/\ \A i \in Rows : submissions[i].judge0ID \in IssuedTokens
          /\ \A i, j \in Rows :
                submissions[i].judge0ID = submissions[j].judge0ID => i = j
          /\ \A s \in Slots :
                creates[s].pc = "persist" => creates[s].judge0ID \in IssuedTokens)

\* a POST has failed after a create went through: the only submission is the
\* one of the create that went through
C11_Witness ==
    /\ CreateAnswered
    /\ response.result = "HttpError"
    /\ Len(judge0) = 2
    /\ judge0[2].token = 0
    /\ Len(submissions) = 1

\* C12: create with a known language and a problem id that is not in the
\* catalog fails with the bad request "No problem with id" at its arrival,
\* and with a known problem and a team id that is not in the ledger with the
\* bad request "No team with id"; neither has sent a request to Judge0 nor
\* written anything, and no request in flight past these checks, and no
\* submission, is for an unknown problem or team.
C12_UnknownProblemOrTeamRejected ==
    /\ [][ /\ ( /\ CreateAnswered'
                /\ response'.dto.language \in DOMAIN LanguageTable
                /\ response'.dto.problemID \notin ProblemIds )
              => /\ response'.result = "BadRequest: No problem with id"
                 /\ UNCHANGED << judge0, submissions, teams, creates >>
           /\ ( /\ CreateAnswered'
                /\ response'.dto.language \in DOMAIN LanguageTable
                /\ response'.dto.problemID \in ProblemIds
                /\ response'.dto.teamID \notin TeamIds )
              => /\ response'.result = "BadRequest: No team with id"
                 /\ UNCHANGED << judge0, submissions, teams >> ]_vars
    /\ [](/\ \A s \in Slots :
                /\ creates[s].pc # "idle"
                   => creates[s].dto.problemID \in ProblemIds
                /\ creates[s].pc \in {"dispatch", "persist"}
                   => creates[s].dto.teamID \in TeamIds
          /\ \A i \in Rows : /\ submissions[i].problem \in ProblemIds
                              /\ submissions[i].team \in TeamIds)

\* a create has been rejected for its team after another create went through
C12_Witness ==
    /\ CreateAnswered
    /\ response.result = "BadRequest: No team with id"
    /\ response.dto.teamID \notin TeamIds
    /\ Len(judge0) > 0
    /\ Len(submissions) > 0

\* C13: once the callbacks for a team and a problem have been handled and
\* some submission of the pair has points, a submission with the most points
\* of the pair carries the best marker.
C13_BestMarkerFollowsAggregation ==
    \A t \in TeamIds, p \in ProblemIds :
        ( /\ InFlight = 0
          /\ \E i \in RowsOf(t, p) : submissions[i].points > 0 )
        => \E i \in RowsOf(t, p) :
              /\ submissions[i].points =
                    Max({ submissions[j].points : j \in RowsOf(t, p) })
              /\ submissions[i].best

\* C14: a submission that has points is in a scored state, ACCEPTED or WRONG.
C14_PointsOnlyWhenScored ==
    \A i \in Rows :
        submissions[i].points # 0 => submissions[i].state \in {"ACCEPTED", "WRONG"}

\* C15: when the two submissions of a team, one for each problem, have each
\* been scored by one callback, concurrently or not, the points of the team
\* are the sum of the points of the two submissions.
C15_PairsIndependent ==
    \A t \in TeamIds :
        ( /\ InFlight = 0
          /\ nScored = 2
          /\ \A p \in ProblemIds :
                /\ Cardinality(RowsOf(t, p)) = 1
                /\ \A i \in RowsOf(t, p) : submissions[i].points > 0 )
        => teams[t] = SumOver([ p \in ProblemIds |->
                                 Max({ submissions[i].points : i \in RowsOf(t, p) }) ],
                             ProblemIds)

\* C16: a create that succeeds appends one submission and changes no other:
\* the new one is IN_QUEUE with 0 points and no best marker, is for the
\* problem, the team and the code of the request, and carries the language
\* id of the request's label and the token Judge0 answered this request's
\* POST with; no team's points change.
C16_CreatePersistsOneQueuedSubmission ==
    [][ ( CreateAnswered' /\ response'.result = "created" )
        => LET n == Len(submissions)
               new == submissions'[n + 1]
               dto == response'.dto
           IN  /\ Len(submissions') = n + 1
               /\ SubSeq(submissions', 1, n) = submissions
               /\ new.id = n + 1
               /\ new.state = "IN_QUEUE"
               /\ new.points = 0
               /\ new.best = FALSE
               /\ new.problem = dto.problemID
               /\ new.team = dto.teamID
               /\ new.code = dto.code
               /\ new.language = LanguageTable[dto.language]
               /\ new.judge0ID \in IssuedTokens
               /\ judge0[new.judge0ID].token = new.judge0ID
               /\ judge0[new.judge0ID].request =
                     PostBody(dto.code, mapLanguageStringToObject(dto.language),
                              Problems[dto.problemID])
               /\ UNCHANGED << teams, judge0, callbacks >> ]_vars

\* a second submission has been created while the first has points and its
\* team too
C16_Witness ==
    /\ CreateAnswered
    /\ response.result = "created"
    /\ Len(submissions) = 2
    /\ submissions[1].points > 0
    /\ teams[submissions[1].team] > 0
    /\ submissions[2].points = 0

\* C17: nScored counts the calls of referee.  A callback that arrives for a
\* known token with a status id of ACCEPTED or WRONG calls referee once, with
\* the decoded output and the expected output and the maxPoints of the
\* submission's problem, and the points of the call are those assigned to
\* the submission; a callback that is answered at its arrival, for an unknown
\* token or another status id, and the later steps of a handler, call it not.
C17_RefereeOncePerScoredCallback ==
    [][ /\ \A s \in Slots :
              ( callbacks[s].pc = "idle" /\ callbacks'[s].pc # "idle" )
              => LET dto == callbacks'[s].dto
                     sub == fetchDetailsByJudge0Token(dto.token)
                 IN  /\ KnownToken(dto.token)
                     /\ ScoredStatus(dto.statusId)
                     /\ nScored' = nScored + 1
                     /\ callbacks'[s].submission.points =
                           referee(Base64Decode(dto.stdout),
                                   Problems[sub.problem].outputText,
                                   Problems[sub.problem].maxPoints).points
        /\ nScored' # nScored
              => \E s \in Slots :
                     callbacks[s].pc = "idle" /\ callbacks'[s].pc = "readBest"
        /\ ( /\ response' # None
             /\ response'.op = "handleCallback"
             /\ response'.result # "done" )
              => /\ ~( /\ KnownToken(response'.dto.token)
                       /\ ScoredStatus(response'.dto.statusId) )
                 /\ nScored' = nScored ]_vars

\* a second callback is being handled for a known token after a callback that
\* was not scored
C17_Witness ==
    /\ nScored = 2
    /\ \E s \in Slots :
          /\ callbacks[s].pc = "readBest"
          /\ callbacks[s].previous # None
          /\ ~ScoredStatus(callbacks[s].previous.statusId)

\* the create request to which Judge0 has answered with the token and that
\* has not saved its submission yet
Unsaved(token) ==
    { s \in Slots : creates[s].pc = "persist" /\ creates[s].judge0ID = token }

\* C18: a callback that arrives for a token Judge0 has issued to a create
\* request that has not saved its submission yet fails with the bad request
\* "submission not found", starts no handler and changes nothing; so no
\* handler is in flight for the token when the submission is saved, IN_QUEUE
\* and with 0 points, and the points of a submission change only at a step
\* of a handler of a callback for its token.
C18_EarlyCallbackRejected ==
    /\ [][ /\ ( /\ response' # None
                /\ response'.op = "handleCallback"
                /\ Unsaved(response'.dto.token) # {} )
              => /\ response'.result = "BadRequest: submission not found"
                 /\ UNCHANGED << submissions, teams, callbacks, creates,
                                 nScored >>
           /\ ( CreateAnswered' /\ response'.result = "created" )
              => /\ submissions'[Len(submissions')].state = "IN_QUEUE"
                 /\ submissions'[Len(submissions')].points = 0
           /\ \A i \in Rows :
                 submissions'[i] # submissions[i]
                 => \E s \in Slots :
                       /\ Handled(s)
                       /\ callbacks[s].dto.token = submissions[i].judge0ID ]_vars
    /\ [](\A s \in Slots :
             callbacks[s].pc # "idle" => Unsaved(callbacks[s].dto.token) = {})

\* a callback has been rejected for the token of a create request that is
\* about to save its submission
C18_Witness ==
    /\ response # None
    /\ response.op = "handleCallback"
    /\ response.result = "BadRequest: submission not found"
    /\ ScoredStatus(response.dto.statusId)
    /\ Unsaved(response.dto.token) # {}

\* C19: a step of the handler of a callback changes no submission but the
\* one of the callback's token and no team's points but those of the team of
\* that submission, and adds and removes no submission; the arrival of a
\* callback changes no submission and no team's points.
C19_CallbackFrame ==
    [][ /\ \A s \in Slots :
              Handled(s)
              => LET token == callbacks[s].dto.token
                     owner == fetchDetailsByJudge0Token(token).team
                 IN  /\ Len(submissions') = Len(submissions)
                     /\ \A i \in Rows :
                           submissions[i].judge0ID # token
                           => submissions'[i] = submissions[i]
                     /\ \A t \in TeamIds \ {owner} : teams'[t] = teams[t]
        /\ ( \/ \E s \in Slots :
                   callbacks[s].pc = "idle" /\ callbacks'[s].pc # "idle"
             \/ /\ response' # None
                /\ response'.op = "handleCallback"
                /\ response'.result # "done" )
              => UNCHANGED << submissions, teams >> ]_vars

\* the callback for the second submission has been handled to its end: the
\* submission and its team have points, the submission of the other team and
\* the other team have none
C19_Witness ==
    /\ CallbackHandled
    /\ response.result = "done"
    /\ Len(submissions) = 2
    /\ response.dto.token = submissions[2].judge0ID
    /\ submissions[2].team # submissions[1].team
    /\ submissions[2].points > 0
    /\ teams[submissions[2].team] > 0
    /\ submissions[1].points = 0
    /\ teams[submissions[1].team] = 0

\* the first question of the storage with the id, or undefined
StoredQuestion(id) ==
    IF \E i \in 1..Len(questionStorage) : questionStorage[i].id = id
    THEN questionStorage[CHOOSE i \in 1..Len(questionStorage) :
             /\ questionStorage[i].id = id
             /\ \A j \in 1..(i - 1) : questionStorage[j].id # id]
    ELSE Undefined

\* C20: what checkIfQuestionExist has returned for an id is the stored
\* question with that id, and undefined when the storage has none.
C20_CheckFindsSeededQuestion ==
    ( questionReply # None /\ questionReply.op = "checkIfQuestionExist" )
    => questionReply.result = StoredQuestion(questionReply.filterDto.id)

=============================================================================
